---- MODULE Spec2Model ----
(***************************************************************************)
(* Rate aggregation and fee composition of the shipping rate calculator.   *)
(*                                                                         *)
(* Money is counted in cents (15.00 is 1500), so that the rounding to      *)
(* currency precision of the source is integer arithmetic here.  Dates are *)
(* the integers Date.getTime() returns.  Time is counted in seconds.       *)
(*                                                                         *)
(* Seven specifications share the variables:                                *)
(*   Spec       RateService.fetchAllRates over its per-carrier tasks       *)
(*   SpecFees   the fee decorators and applyFees                           *)
(*   SpecSort   RateService.sortRates on a merged list of quotes           *)
(*   SpecToken  FedExAdapter.getAccessToken under concurrent callers       *)
(*   SpecAdapter  one call of FedExAdapter.fetchRates and its network I/O  *)
(*   SpecFactory  getCarrierAdapter and the adapter objects behind it      *)
(*   SpecStore  the results page's cache of rate results in localStorage   *)
(***************************************************************************)
EXTENDS Integers, Sequences, FiniteSets, Bags, TLC

VARIABLES
    \* ---- fee decorators ----
    component,      \* the rate component last built: [baseAmount, stack]
    wrapped,        \* the component it was built from
    lastOp,         \* the operation that built it: [op, options]
    \* ---- sortRates ----
    merged,         \* the merged, unsorted rates of one aggregation
    sortedRates,    \* <<>> before the sort, <<list>> after it
    \* ---- RateService.fetchAllRates ----
    registry,       \* the carrier ids the adapter registry knows
    request,        \* the RateRequest: [carriersFilter, options]
    phase,          \* "idle", "fanout" (awaiting the per-carrier tasks), "returned"
    task,           \* the per-carrier tasks, in the order of the target list
    response,       \* <<>> until fetchAllRates settles, then <<outcome>>
    \* ---- FedExAdapter.getAccessToken ----
    now,            \* Date.now(), in ms
    tokenCache,     \* <<>> (null) or <<[token, expiresAt]>>
    tokenPromise,   \* 0 (null) or the number of the token exchange it stands for
    exchanges,      \* the token-exchange network calls issued, in order
    caller,         \* the concurrent callers of getAccessToken
    \* ---- FedExAdapter.fetchRates ----
    fetchRequest,   \* what one call of fetchRates reads of its RateRequest
    adapterPc,      \* "idle", "token" (awaiting the token exchange),
                    \* "rate" (awaiting the rate request), "settled"
    network,        \* the calls of fetchWithTimeout, in order: [url, state, timer]
    outcome,        \* <<>> until fetchRates settles, then <<result>>
    rawData,        \* history: <<>> or <<the response the rate endpoint gave>>
    cancelled,      \* history: the caller of fetchRates has given the call up
    \* ---- the adapter registry (getCarrierAdapter) ----
    adapters,       \* the module-level record: carrier id -> adapter instance
    instances,      \* the FedExAdapter objects constructed so far: [carrier, tokenCache]
    resolved,       \* history: the calls of getCarrierAdapter: [carrier, result, saw]
    stored,         \* history: carrier id -> the token last stored through a reference
    \* ---- the result cache of the results page ----
    clock,          \* Date.now() of the browser, in ms
    formState,      \* the form data in localStorage: the current request
    localStorage,   \* the item under RESULTS_STORAGE_KEY: <<>> or <<serialized>>
    ratesPromise,   \* createRatesPromise: [pc, request, result]
    loaded          \* history: the last call of loadResults: [at, found, result]

feeVars == <<component, wrapped, lastOp>>
sortVars == <<merged, sortedRates>>
aggVars == <<registry, request, phase, task, response>>
tokenVars == <<now, tokenCache, tokenPromise, exchanges, caller>>
adapterVars == <<fetchRequest, adapterPc, network, outcome, rawData, cancelled>>
factoryVars == <<adapters, instances, resolved, stored>>
storeVars == <<clock, formState, localStorage, ratesPromise, loaded>>
vars == <<component, wrapped, lastOp, merged, sortedRates,
          registry, request, phase, task, response,
          now, tokenCache, tokenPromise, exchanges, caller,
          fetchRequest, adapterPc, network, outcome, rawData, cancelled,
          adapters, instances, resolved, stored,
          clock, formState, localStorage, ratesPromise, loaded>>

(***************************************************************************)
(* Bounds of the model.                                                    *)
(***************************************************************************)
MaxStack == 4       \* decorators stacked by hand on one base rate
MaxApplyOn == 1     \* applyFees is applied to components of at most this depth
MaxRates == 3       \* quotes in one merged list handed to sortRates
MaxCarriers == 2    \* entries of request.carriersFilter
MaxQuotes == 1      \* services in one carrier response
MaxCallers == 3     \* concurrent callers of getAccessToken on one adapter
MaxTicks == 3       \* steps of the clock

BaseAmounts == {1500, 10000}
InsuredValues == {-100, 0, 8350, 24950, 25050, 123449}

(***************************************************************************)
(* Fee decorators.  A component is a base amount and the stack of the      *)
(* decorators wrapped around it, innermost first.  getCost and getFees     *)
(* walk the stack from the outermost decorator inwards, as the nested      *)
(* objects delegate to wrappedComponent.                                   *)
(***************************************************************************)
SIGNATURE_FEE == 550
FRAGILE_HANDLING_FEE == 1000
SATURDAY_DELIVERY_FEE == 1500
INSURANCE_MIN_FEE == 250

Max(a, b) == IF a >= b THEN a ELSE b

\* Math.round(x / 100) for an integer x: the nearest integer, halves upwards.
RoundHundredth(x) == (x + 50) \div 100

BaseRate(baseAmount) == [baseAmount |-> baseAmount, stack |-> <<>>]

Decorator(kind, insuredValue) == [kind |-> kind, insuredValue |-> insuredValue]

\* a decorator object holds the component it is given, untouched
Wrap_ChargesWrapped(c, d) ==
    [c EXCEPT !.baseAmount = @ + SIGNATURE_FEE, !.stack = Append(@, d)]
Wrap(c, d) == [c EXCEPT !.stack = Append(@, d)]

SignatureDecorator(c) == Wrap(c, Decorator("signature", 0))
InsuranceDecorator(c, insuredValue) == Wrap(c, Decorator("insurance", insuredValue))
FragileHandlingDecorator(c) == Wrap(c, Decorator("fragilehandling", 0))
SaturdayDeliveryDecorator(c) == Wrap(c, Decorator("saturdaydelivery", 0))

\* The component a decorator wraps.
wrappedComponent(c) == [c EXCEPT !.stack = SubSeq(@, 1, Len(@) - 1)]

Fee(type, amount, description) ==
    [type |-> type, amount |-> amount, description |-> description]

\* max((insuredValue / 100) * 1, 2.5) dollars, then Math.round(fee * 100) / 100;
\* insuredValue in cents, the fee in cents.
calculateInsuranceFee_NoFloor(insuredValue) == RoundHundredth(insuredValue)
calculateInsuranceFee(insuredValue) ==
    RoundHundredth(Max(insuredValue, INSURANCE_MIN_FEE * 100))

SignatureGetCost(wrappedCost) == wrappedCost + SIGNATURE_FEE
SignatureGetFees(wrappedFees) ==
    Append(wrappedFees, Fee("signature", SIGNATURE_FEE, <<"Signature Required">>))

InsuranceGetCost_ShareOfWrapped(wrappedCost, insuredValue) ==
    wrappedCost + Max(wrappedCost \div 100, INSURANCE_MIN_FEE)
InsuranceGetCost(wrappedCost, insuredValue) ==
    wrappedCost + calculateInsuranceFee(insuredValue)
InsuranceGetFees(wrappedFees, insuredValue) ==
    Append(wrappedFees,
           Fee("insurance", calculateInsuranceFee(insuredValue),
               <<"Insurance: $", insuredValue>>))

FragileGetCost(wrappedCost) == wrappedCost + FRAGILE_HANDLING_FEE
FragileGetFees(wrappedFees) ==
    Append(wrappedFees,
           Fee("fragilehandling", FRAGILE_HANDLING_FEE, <<"Fragile Handling">>))

SaturdayGetCost(wrappedCost) == wrappedCost + SATURDAY_DELIVERY_FEE
SaturdayGetFees(wrappedFees) ==
    Append(wrappedFees,
           Fee("saturdaydelivery", SATURDAY_DELIVERY_FEE, <<"Saturday Delivery">>))

RECURSIVE getCost(_)
getCost(c) ==
    IF c.stack = <<>> THEN c.baseAmount
    ELSE LET d == c.stack[Len(c.stack)]
             inner == getCost(wrappedComponent(c))
         IN  CASE d.kind = "signature" -> SignatureGetCost(inner)
               [] d.kind = "insurance" -> InsuranceGetCost(inner, d.insuredValue)
               [] d.kind = "fragilehandling" -> FragileGetCost(inner)
               [] d.kind = "saturdaydelivery" -> SaturdayGetCost(inner)

RECURSIVE getFees(_)
getFees(c) ==
    IF c.stack = <<>> THEN <<>>
    ELSE LET d == c.stack[Len(c.stack)]
             inner == getFees(wrappedComponent(c))
         IN  CASE d.kind = "signature" -> SignatureGetFees(inner)
               [] d.kind = "insurance" -> InsuranceGetFees(inner, d.insuredValue)
               [] d.kind = "fragilehandling" -> FragileGetFees(inner)
               [] d.kind = "saturdaydelivery" -> SaturdayGetFees(inner)

(***************************************************************************)
(* ShippingOptions.  insuredValue is optional: <<>> when the field is      *)
(* absent, <<v>> when it holds the number v.                               *)
(***************************************************************************)
ShippingOptions ==
    [signatureRequired : BOOLEAN, insurance : BOOLEAN, fragileHandling : BOOLEAN,
     saturdayDelivery : BOOLEAN,
     insuredValue : {<<>>} \cup {<<v>> : v \in InsuredValues}]

NoOptions ==
    [signatureRequired |-> FALSE, insurance |-> FALSE, fragileHandling |-> FALSE,
     saturdayDelivery |-> FALSE, insuredValue |-> <<>>]

\* JavaScript truthiness of an optional number (NaN is not in the model).
Truthy_Supplied(optionalNumber) == optionalNumber # <<>>
Truthy(optionalNumber) == optionalNumber # <<>> /\ optionalNumber[1] # 0

applyFees(baseRate, options) ==
    LET r1 == IF options.signatureRequired THEN SignatureDecorator(baseRate)
              ELSE baseRate
        r2 == IF options.insurance /\ Truthy(options.insuredValue)
              THEN InsuranceDecorator(r1, options.insuredValue[1])
              ELSE r1
        r3 == IF options.fragileHandling THEN FragileHandlingDecorator(r2) ELSE r2
    IN  IF options.saturdayDelivery THEN SaturdayDeliveryDecorator(r3) ELSE r3

(***************************************************************************)
(* Operations of the fee specification.                                    *)
(***************************************************************************)
FeeInit ==
    /\ \E b \in BaseAmounts : component = BaseRate(b)
    /\ wrapped = component
    /\ lastOp = [op |-> "new", options |-> NoOptions]

WrapWith(d) ==
    /\ Len(component.stack) < MaxStack
    /\ wrapped' = component
    /\ component' = d
    /\ lastOp' = [op |-> "wrap", options |-> NoOptions]
    /\ UNCHANGED <<sortVars, aggVars, tokenVars, adapterVars,
                   factoryVars, storeVars>>

WrapSignature == WrapWith(SignatureDecorator(component))

WrapInsurance == \E v \in InsuredValues : WrapWith(InsuranceDecorator(component, v))

WrapFragileHandling == WrapWith(FragileHandlingDecorator(component))

WrapSaturdayDelivery == WrapWith(SaturdayDeliveryDecorator(component))

ApplyFees ==
    /\ Len(component.stack) <= MaxApplyOn
    /\ lastOp.op # "applyFees"
    /\ \E options \in ShippingOptions :
          /\ wrapped' = component
          /\ component' = applyFees(component, options)
          /\ lastOp' = [op |-> "applyFees", options |-> options]
    /\ UNCHANGED <<sortVars, aggVars, tokenVars, adapterVars,
                   factoryVars, storeVars>>

FeeNext ==
    \/ WrapSignature
    \/ WrapInsurance
    \/ WrapFragileHandling
    \/ WrapSaturdayDelivery
    \/ ApplyFees

(***************************************************************************)
(* Quotes and RateService.sortRates.  Array.prototype.sort is a stable     *)
(* sort: with the comparator of the source it is modelled by a stable      *)
(* insertion sort.                                                         *)
(***************************************************************************)
ShippingRate(carrier, baseRate, additionalFees, totalCost, estimatedDeliveryDate) ==
    [carrier |-> carrier, baseRate |-> baseRate, additionalFees |-> additionalFees,
     totalCost |-> totalCost, estimatedDeliveryDate |-> estimatedDeliveryDate]

MaxDate == 2        \* delivery dates are 1..MaxDate

SortCarriers == {"FedEx", "UPS"}
SortCosts == {1500, 4275}

SortQuotes ==
    {ShippingRate(c, t, <<>>, t, d) : c \in SortCarriers, t \in SortCosts, d \in 1..MaxDate}

SeqsUpTo(S, n) == UNION {[1..k -> S] : k \in 0..n}

\* the comparator handed to sort
compareRates_CostOnly(a, b) == a.totalCost - b.totalCost
compareRates(a, b) ==
    IF a.totalCost # b.totalCost THEN a.totalCost - b.totalCost
    ELSE a.estimatedDeliveryDate - b.estimatedDeliveryDate

Front(s) == SubSeq(s, 1, Len(s) - 1)
Last(s) == s[Len(s)]

RECURSIVE InsertRate(_, _)
InsertRate(s, x) ==
    IF s = <<>> THEN <<x>>
    ELSE IF compareRates(Last(s), x) <= 0 THEN Append(s, x)
    ELSE Append(InsertRate(Front(s), x), Last(s))

RECURSIVE sortRates(_)
sortRates(rates) ==
    IF rates = <<>> THEN <<>>
    ELSE InsertRate(sortRates(Front(rates)), Last(rates))

SortInit ==
    /\ merged \in SeqsUpTo(SortQuotes, MaxRates)
    /\ sortedRates = <<>>

SortRates ==
    /\ sortedRates = <<>>
    /\ sortedRates' = <<sortRates(merged)>>
    /\ UNCHANGED <<merged, feeVars, aggVars, tokenVars, adapterVars,
                   factoryVars, storeVars>>

SortNext == SortRates

(***************************************************************************)
(* Errors.  An error value is an Error object or any other thrown value;   *)
(* its message is the set of the words it is made of, and                  *)
(* message.includes(w) is membership of w.                                 *)
(***************************************************************************)
Error(message) == [isError |-> TRUE, message |-> message]
Thrown(text) == [isError |-> FALSE, message |-> text]
NoError == [isError |-> FALSE, message |-> {}]

toLowerCase(word) ==
    CASE word = "ECONNREFUSED" -> "econnrefused"
      [] word = "ENOTFOUND" -> "enotfound"
      [] word = "Request" -> "request"
      [] word = "Unknown" -> "unknown"
      [] word = "FedEx" -> "fedex"
      [] word = "UPS" -> "ups"
      [] word = "DHL" -> "dhl"
      [] word = "API" -> "api"
      [] word = "Error" -> "error"
      [] word = "Gateway" -> "gateway"
      [] word = "Invalid" -> "invalid"
      [] word = "Envelope" -> "envelope"
      [] word = "Tube" -> "tube"
      [] word = "Your" -> "your"
      [] word = "Failed" -> "failed"
      [] word = "Could" -> "could"
      [] word = "Unexpected" -> "unexpected"
      [] word = "JSON" -> "json"
      [] word = "This" -> "this"
      [] OTHER -> word

RecoverableSignatures ==
    {"timeout", "network", "connection", "fetch failed", "econnrefused", "enotfound"}

isRecoverableError(error) ==
    /\ error.isError
    /\ \E word \in error.message : toLowerCase(word) \in RecoverableSignatures

\* fetchWithTimeout: `Request timeout after ${this.timeout}ms`
TimeoutError == Error({"Request", "timeout", "after", "ms"})
\* callFedExAPI: `FedEx API error (${response.status}): ${response.statusText}`
ApiError == Error({"FedEx", "API", "error"})
\* a rejection with a value that is no Error object
ThrownString == Thrown({"timeout"})

AdapterErrors == {TimeoutError, ApiError, ThrownString}

(***************************************************************************)
(* The adapter registry and the carriers' answers.                         *)
(***************************************************************************)
\* carrier ids a request may name: two the registry may know, two it never
\* knows (one of them worded like a transient failure), and the empty string
CarrierNames == {"FedEx", "UPS", "DHL", "network", ""}

\* The source registers FedEx alone; its tests swap the registry for one that
\* also answers for other carriers.
Registries == {{"FedEx"}, {"FedEx", "UPS"}}

UnknownCarrierError(carrier) == Error({"Unknown", "carrier", carrier})

(***************************************************************************)
(* Results of calls that may throw.                                        *)
(***************************************************************************)
Return(value) == [ok |-> TRUE, value |-> value, error |-> NoError]
Throw(error) == [ok |-> FALSE, value |-> <<>>, error |-> error]

(***************************************************************************)
(* The FedEx rate response and its normalisation.  An optional field is    *)
(* <<>> when absent and <<v>> when present.  The carrier states its        *)
(* amounts in whole cents.                                                 *)
(***************************************************************************)
CARRIER_NAME == "FedEx"

\* Math.round(num * 100) / 100, for an amount of whole cents
roundToTwoDecimals(cents) == RoundHundredth(cents * 100)

\* totalNetCharge as the wire carries it: a number, an object with an amount,
\* an object without one
NetNumber(amount) == [kind |-> "number", amount |-> <<amount>>]
NetObject(amount) == [kind |-> "object", amount |-> <<amount>>]
NetWithoutAmount == [kind |-> "object", amount |-> <<>>]

Surcharge(type, amount) == [type |-> type, amount |-> amount]

RatedShipment(rateType, totalNetCharge, withDutiesAndTaxes, totalBaseCharge, surCharges) ==
    [rateType |-> rateType, totalNetCharge |-> totalNetCharge,
     totalNetChargeWithDutiesAndTaxes |-> withDutiesAndTaxes,
     totalBaseCharge |-> totalBaseCharge, surCharges |-> surCharges]

ReplyDetail(serviceType, ratedShipmentDetails, commitDate) ==
    [serviceType |-> serviceType, ratedShipmentDetails |-> ratedShipmentDetails,
     commitDate |-> commitDate]

\* details.find(rateType === type), as an optional value
FindRateType(details, type) ==
    LET found == {i \in DOMAIN details : details[i].rateType = type}
    IN  IF found = {} THEN <<>>
        ELSE <<details[CHOOSE i \in found : \A j \in found : i <= j]>>

selectRate(details) ==
    IF FindRateType(details, "ACCOUNT") # <<>> THEN FindRateType(details, "ACCOUNT")
    ELSE IF FindRateType(details, "LIST") # <<>> THEN FindRateType(details, "LIST")
    ELSE IF details # <<>> THEN <<details[1]>>
    ELSE <<>>

ExtractionError == Error({"Could", "not", "extract", "total", "charge", "from", "FedEx", "response"})

extractTotalCharge(ratedShipment) ==
    IF ratedShipment.totalNetChargeWithDutiesAndTaxes # <<>>
    THEN Return(ratedShipment.totalNetChargeWithDutiesAndTaxes[1])
    ELSE IF ratedShipment.totalNetCharge.amount # <<>>
    THEN Return(ratedShipment.totalNetCharge.amount[1])
    ELSE Throw(ExtractionError)

mapServiceTypeToSpeed(serviceType) ==
    CASE serviceType \in {"FEDEX_INTERNATIONAL_FIRST", "INTERNATIONAL_FIRST", "PRIORITY_OVERNIGHT",
                          "FIRST_OVERNIGHT", "STANDARD_OVERNIGHT"} -> "overnight"
      [] serviceType \in {"FEDEX_INTERNATIONAL_PRIORITY", "FEDEX_2_DAY", "FEDEX_2_DAY_AM"}
           -> "two-day"
      [] serviceType \in {"FEDEX_INTERNATIONAL_ECONOMY", "INTERNATIONAL_ECONOMY",
                          "FEDEX_EXPRESS_SAVER", "FEDEX_GROUND"} -> "standard"
      [] OTHER -> "economy"

mapSurchargeType(type) ==
    CASE type = "FUEL" -> "fuel"
      [] type = "RESIDENTIAL_DELIVERY" -> "residentialdelivery"
      [] type = "SIGNATURE_OPTION" -> "signature"
      [] type = "DECLARED_VALUE" -> "insurance"
      [] type = "SATURDAY_DELIVERY" -> "saturdaydelivery"
      [] type = "PEAK_SEASON" -> "peakseason"
      [] OTHER -> type

RECURSIVE mapSurcharges(_)
mapSurcharges(surCharges) ==
    IF surCharges = <<>> THEN <<>>
    ELSE Append(mapSurcharges(Front(surCharges)),
                Fee(mapSurchargeType(Last(surCharges).type), Last(surCharges).amount,
                    <<Last(surCharges).type>>))

\* new Date(), as a day number
Today == 0

isInternational(serviceType) ==
    serviceType \in {"FEDEX_INTERNATIONAL_FIRST", "INTERNATIONAL_FIRST",
                     "FEDEX_INTERNATIONAL_PRIORITY", "FEDEX_INTERNATIONAL_ECONOMY",
                     "INTERNATIONAL_ECONOMY"}

DELIVERY_DAYS(international, speed) ==
    IF international
    THEN CASE speed = "overnight" -> 3 [] speed = "two-day" -> 7
           [] speed = "standard" -> 10 [] OTHER -> 14
    ELSE CASE speed = "overnight" -> 1 [] speed = "two-day" -> 2
           [] speed = "standard" -> 3 [] OTHER -> 5

estimateDeliveryDate(speed, international) == Today + DELIVERY_DAYS(international, speed)

parseDeliveryDate(detail) ==
    IF detail.commitDate # <<>> THEN detail.commitDate[1]
    ELSE estimateDeliveryDate(mapServiceTypeToSpeed(detail.serviceType),
                              isInternational(detail.serviceType))

\* the rated service a carrier answers with: each carrier has its own price
RatedDetail(carrier) ==
    IF carrier = "FedEx"
    THEN ReplyDetail("FEDEX_GROUND",
                     <<RatedShipment("ACCOUNT", NetObject(1500), <<>>, <<1500>>, <<>>)>>, <<2>>)
    ELSE ReplyDetail("PRIORITY_OVERNIGHT",
                     <<RatedShipment("ACCOUNT", NetObject(4275), <<>>, <<4275>>, <<>>)>>, <<1>>)

\* the carrier responses: up to MaxQuotes rated services
CarrierResponses(carrier) == SeqsUpTo({RatedDetail(carrier)}, MaxQuotes)

\* the quote an adapter builds from one service whose rate can be selected and
\* its total extracted; the request's options reach only the feature tags,
\* which the model leaves out
adaptRate(carrier, detail) ==
    LET ratedShipment == selectRate(detail.ratedShipmentDetails)[1]
    IN  ShippingRate(carrier,
                     IF ratedShipment.totalBaseCharge # <<>>
                     THEN ratedShipment.totalBaseCharge[1] ELSE 0,
                     mapSurcharges(ratedShipment.surCharges),
                     roundToTwoDecimals(extractTotalCharge(ratedShipment).value),
                     parseDeliveryDate(detail))
        @@ [speed |-> mapServiceTypeToSpeed(detail.serviceType)]

\* the loop over rateReplyDetails: a service with no rated shipment is skipped
RECURSIVE adaptResponse(_, _)
adaptResponse(carrier, rateReplyDetails) ==
    IF rateReplyDetails = <<>> THEN <<>>
    ELSE IF selectRate(Last(rateReplyDetails).ratedShipmentDetails) = <<>>
         THEN adaptResponse(carrier, Front(rateReplyDetails))
         ELSE Append(adaptResponse(carrier, Front(rateReplyDetails)),
                     adaptRate(carrier, Last(rateReplyDetails)))

\* what the adapter of a registered carrier may resolve with: the quotes of
\* each of its responses
AdapterQuotes ==
    [carrier \in UNION Registries |->
       {adaptResponse(carrier, r) : r \in CarrierResponses(carrier)}]

(***************************************************************************)
(* RateService: one task per entry of the target list.                     *)
(*   pc           "attempt"   the call of fetchCarrierRate is in flight    *)
(*                "retry"     a call of retryWithBackoff is in flight      *)
(*                "backoff"   retryWithBackoff waits before the next call  *)
(*                "fulfilled" | "rejected"   the task's promise is settled *)
(*   carrier      the carrier id the task was started for                  *)
(*   attempt      the loop variable of retryWithBackoff (-1 before it)     *)
(*   invocations  calls of adapter.fetchRates made for the task            *)
(*   failures     history: for each failed attempt, was it recoverable     *)
(*   delays       history: the backoff delays waited, in ms                *)
(***************************************************************************)
MaxRetries_OneFewer == 3 - 1
MaxRetries == 3

Pow2(n) == IF n = 0 THEN 1 ELSE IF n = 1 THEN 2 ELSE IF n = 2 THEN 4 ELSE 8

delayMs(attempt) == Pow2(attempt) * 1000

ExampleOptions ==
    [signatureRequired |-> TRUE, insurance |-> TRUE, fragileHandling |-> FALSE,
     saturdayDelivery |-> FALSE, insuredValue |-> <<25000>>]

\* the options do not reach the aggregation: one value is drawn
RequestOptions == {ExampleOptions}

\* carriersFilter is optional: <<>> when absent, <<list>> when present
CarriersFilters == {<<>>} \cup {<<l>> : l \in SeqsUpTo(CarrierNames, MaxCarriers)}

\* request.carriersFilter ?? ['FedEx']
targetCarriers(req) ==
    IF req.carriersFilter = <<>> THEN <<"FedEx">> ELSE req.carriersFilter[1]

NewTask(carrier) ==
    [carrier |-> carrier, pc |-> "attempt", attempt |-> -1, invocations |-> 0,
     value |-> <<>>, error |-> NoError, failures |-> <<>>, delays |-> <<>>]

\* adapter.fetchRates(request) is called and awaited
Invoke(t, pc, attempt) ==
    [t EXCEPT !.pc = pc, !.attempt = attempt, !.invocations = @ + 1]

\* the catch block of retryWithBackoff, in pass `attempt` of its loop
RetryCatch(t, attempt, error) ==
    LET t1 == [t EXCEPT !.attempt = attempt,
                        !.failures = Append(@, isRecoverableError(error))]
    IN  IF attempt = MaxRetries - 1
        THEN [t1 EXCEPT !.pc = "rejected", !.error = error]
        ELSE [t1 EXCEPT !.pc = "backoff", !.delays = Append(@, delayMs(attempt))]

\* one pass of the loop of retryWithBackoff, up to its await
RetryAttempt(t, carrier, attempt) ==
    IF carrier \in registry THEN Invoke(t, "retry", attempt)
    ELSE RetryCatch(t, attempt, UnknownCarrierError(carrier))

\* the catch block of fetchCarrierRate
FirstCatch_AlwaysRetry(t, carrier, error) ==
    RetryAttempt([t EXCEPT !.failures = Append(@, isRecoverableError(error))], carrier, 0)
FirstCatch(t, carrier, error) ==
    LET t1 == [t EXCEPT !.failures = Append(@, isRecoverableError(error))]
    IN  IF isRecoverableError(error) THEN RetryAttempt(t1, carrier, 0)
        ELSE [t1 EXCEPT !.pc = "rejected", !.error = error]

\* fetchCarrierRate, up to its first await
fetchCarrierRate(carrier) ==
    IF carrier \in registry THEN Invoke(NewTask(carrier), "attempt", -1)
    ELSE FirstCatch(NewTask(carrier), carrier, UnknownCarrierError(carrier))

Settled(t) == t.pc \in {"fulfilled", "rejected"}
InFlight(t) == t.pc \in {"attempt", "retry"}

\* Promise.allSettled resolves once every promise is settled ...
allSettledReady_FirstRejection(tasks) ==
    \/ \A i \in DOMAIN tasks : Settled(tasks[i])
    \/ \E i \in DOMAIN tasks : tasks[i].pc = "rejected"
allSettledReady(tasks) == \A i \in DOMAIN tasks : Settled(tasks[i])

\* ... and never rejects: awaiting it yields one result per promise
awaitAll_PromiseAll(tasks) ==
    IF \E i \in DOMAIN tasks : tasks[i].pc = "rejected"
    THEN [status |-> "rejected",
          reason |-> tasks[CHOOSE i \in DOMAIN tasks : tasks[i].pc = "rejected"].error]
    ELSE [status |-> "fulfilled",
          results |-> [i \in DOMAIN tasks |->
                         [status |-> "fulfilled", value |-> tasks[i].value, reason |-> NoError]]]
awaitAll(tasks) ==
    [status |-> "fulfilled",
     results |-> [i \in DOMAIN tasks |->
                    IF tasks[i].pc = "fulfilled"
                    THEN [status |-> "fulfilled", value |-> tasks[i].value, reason |-> NoError]
                    ELSE [status |-> "rejected", value |-> <<>>, reason |-> tasks[i].error]]]

CarrierError(carrier, error) ==
    [carrier |-> carrier, message |-> error.message,
     recoverable |-> isRecoverableError(error)]

\* the forEach over the results: the rates and the errors collected from the
\* first n results
RECURSIVE collectRates_NoneOnError(_, _, _)
collectRates_NoneOnError(results, carriers, n) ==
    IF n = 0 \/ \E i \in 1..n : results[i].status # "fulfilled" THEN <<>>
    ELSE collectRates_NoneOnError(results, carriers, n - 1) \o results[n].value

RECURSIVE collectRates(_, _, _)
collectRates(results, carriers, n) ==
    IF n = 0 THEN <<>>
    ELSE IF carriers[n] # "" /\ results[n].status = "fulfilled"
         THEN collectRates(results, carriers, n - 1) \o results[n].value
         ELSE collectRates(results, carriers, n - 1)

RECURSIVE collectErrors(_, _, _)
collectErrors(results, carriers, n) ==
    IF n = 0 THEN <<>>
    ELSE IF carriers[n] # "" /\ results[n].status # "fulfilled"
         THEN Append(collectErrors(results, carriers, n - 1),
                     CarrierError(carriers[n], results[n].reason))
         ELSE collectErrors(results, carriers, n - 1)

AggInit ==
    /\ registry \in Registries
    /\ request \in [carriersFilter : CarriersFilters, options : RequestOptions]
    /\ phase = "idle"
    /\ task = <<>>
    /\ response = <<>>

\* fetchAllRates up to its await: every task is started, in list order
FetchAllRates ==
    /\ phase = "idle"
    /\ phase' = "fanout"
    /\ task' = [i \in DOMAIN targetCarriers(request) |->
                  fetchCarrierRate(targetCarriers(request)[i])]
    /\ UNCHANGED <<registry, request, response, feeVars, sortVars, tokenVars, adapterVars,
                   factoryVars, storeVars>>

\* the adapter's fetchRates resolves with the quotes of a carrier response
AdapterResolves(i) ==
    /\ phase = "fanout"
    /\ InFlight(task[i])
    /\ \E quotes \in AdapterQuotes[targetCarriers(request)[i]] :
          task' = [task EXCEPT ![i].pc = "fulfilled", ![i].value = quotes]
    /\ UNCHANGED <<registry, request, phase, response, feeVars, sortVars, tokenVars, adapterVars,
                   factoryVars, storeVars>>

\* the adapter's fetchRates rejects
AdapterRejects(i) ==
    /\ phase = "fanout"
    /\ InFlight(task[i])
    /\ \E e \in AdapterErrors :
          task' = [task EXCEPT ![i] =
                     IF task[i].pc = "attempt"
                     THEN FirstCatch(task[i], targetCarriers(request)[i], e)
                     ELSE RetryCatch(task[i], task[i].attempt, e)]
    /\ UNCHANGED <<registry, request, phase, response, feeVars, sortVars, tokenVars, adapterVars,
                   factoryVars, storeVars>>

\* the timer of a backoff fires: the loop goes into its next pass
BackoffElapses(i) ==
    /\ phase = "fanout"
    /\ task[i].pc = "backoff"
    /\ task' = [task EXCEPT ![i] =
                  RetryAttempt(task[i], targetCarriers(request)[i], task[i].attempt + 1)]
    /\ UNCHANGED <<registry, request, phase, response, feeVars, sortVars, tokenVars, adapterVars,
                   factoryVars, storeVars>>

\* fetchAllRates after its await: collect, sort, return
ReturnResponse ==
    /\ phase = "fanout"
    /\ allSettledReady(task)
    /\ phase' = "returned"
    /\ LET settled == awaitAll(task)
           carriers == targetCarriers(request)
       IN  response' =
             IF settled.status = "rejected"
             THEN <<[status |-> "rejected", reason |-> settled.reason,
                     rates |-> <<>>, errors |-> <<>>]>>
             ELSE <<[status |-> "fulfilled", reason |-> NoError,
                     rates |-> sortRates(collectRates(settled.results, carriers,
                                                      Len(carriers))),
                     errors |-> collectErrors(settled.results, carriers,
                                              Len(carriers))]>>
    /\ UNCHANGED <<registry, request, task, feeVars, sortVars, tokenVars, adapterVars,
                   factoryVars, storeVars>>

AdapterResolve == \E i \in DOMAIN task : AdapterResolves(i)

AdapterReject == \E i \in DOMAIN task : AdapterRejects(i)

BackoffTimer == \E i \in DOMAIN task : BackoffElapses(i)

AggNext ==
    \/ FetchAllRates
    \/ AdapterResolve
    \/ AdapterReject
    \/ BackoffTimer
    \/ ReturnResponse

AggIdle ==
    /\ registry = {"FedEx"}
    /\ request = [carriersFilter |-> <<>>, options |-> NoOptions]
    /\ phase = "idle"
    /\ task = <<>>
    /\ response = <<>>

(***************************************************************************)
(* FedExAdapter.getAccessToken and fetchNewToken.  Each caller is one      *)
(* fetchRates call on the one adapter instance.                            *)
(*   pc        "idle"       has not called getAccessToken yet              *)
(*             "awaitOwn"   started a token exchange and awaits it         *)
(*             "awaitJoin"  returned the tokenPromise it found in flight   *)
(*             "done"       getAccessToken has settled for it              *)
(*   exchange  the token exchange it awaits (0: answered from the cache)   *)
(*   settledAtEntry  history: exchanges already settled when it called     *)
(***************************************************************************)
TOKEN_CACHE_BUFFER_MS == 5 * 60 * 1000
DEFAULT_TOKEN_EXPIRY_SEC == 600

TickMs == 150 * 1000
StartMs == 600 * 1000

\* expires_in of a token response, in seconds; 0 stands for a missing field
ExpiresIn == {0, 120, 900}

Callers == 1..MaxCallers

NoToken == [status |-> "none", token |-> 0]

\* the token cache the adapter may hold when the callers arrive: none, an
\* expired token, one inside the refresh buffer, one at its edge, a fresh one
InitialCaches ==
    {<<>>} \cup {<<[token |-> 0, expiresAt |-> StartMs + d]>> :
                   d \in {0 - 1000, 100 * 1000, TOKEN_CACHE_BUFFER_MS, 900 * 1000}}

\* the cache check of getAccessToken
cacheValid_NotExpired(cache, at) == cache # <<>> /\ cache[1].expiresAt > at
cacheValid(cache, at) == cache # <<>> /\ cache[1].expiresAt > at + TOKEN_CACHE_BUFFER_MS

\* the check for a refresh in flight
refreshInFlight_Never(promise) == FALSE
refreshInFlight(promise) == promise # 0

\* what awaiting token exchange n yields
Outcome(n) ==
    IF exchanges[n].state = "fulfilled"
    THEN [status |-> "token", token |-> exchanges[n].token]
    ELSE [status |-> "error", token |-> 0]

TokenInit ==
    /\ now = StartMs
    /\ tokenCache \in InitialCaches
    /\ tokenPromise = 0
    /\ exchanges = <<>>
    /\ caller = [c \in Callers |->
                   [pc |-> "idle", exchange |-> 0, result |-> NoToken,
                    settledAtEntry |-> 0, stale |-> FALSE]]

SettledExchanges == {n \in DOMAIN exchanges : exchanges[n].state # "pending"}

\* getAccessToken up to its await; fetchNewToken up to its fetch
GetAccessToken(c) ==
    /\ caller[c].pc = "idle"
    /\ IF cacheValid(tokenCache, now)
       THEN /\ caller' = [caller EXCEPT ![c].pc = "done",
                            ![c].result = [status |-> "token", token |-> tokenCache[1].token],
                            ![c].settledAtEntry = Cardinality(SettledExchanges)]
            /\ UNCHANGED <<tokenPromise, exchanges>>
       ELSE IF refreshInFlight(tokenPromise)
       THEN /\ caller' = [caller EXCEPT ![c].pc = "awaitJoin",
                            ![c].exchange = tokenPromise,
                            ![c].stale = TRUE,
                            ![c].settledAtEntry = Cardinality(SettledExchanges)]
            /\ UNCHANGED <<tokenPromise, exchanges>>
       ELSE /\ exchanges' = Append(exchanges,
                                   [state |-> "pending", token |-> 0, startedAt |-> now])
            /\ tokenPromise' = Len(exchanges) + 1
            /\ caller' = [caller EXCEPT ![c].pc = "awaitOwn",
                            ![c].exchange = Len(exchanges) + 1,
                            ![c].stale = TRUE,
                            ![c].settledAtEntry = Cardinality(SettledExchanges)]
    /\ UNCHANGED <<now, tokenCache, feeVars, sortVars, aggVars, adapterVars,
                   factoryVars, storeVars>>

\* the token endpoint answers exchange n with a token: the rest of fetchNewToken
TokenGranted(n) ==
    /\ exchanges[n].state = "pending"
    /\ \E expires_in \in ExpiresIn :
          tokenCache' =
            <<[token |-> n,
               expiresAt |-> exchanges[n].startedAt
                             + (IF expires_in # 0 THEN expires_in
                                ELSE DEFAULT_TOKEN_EXPIRY_SEC) * 1000]>>
    /\ exchanges' = [exchanges EXCEPT ![n].state = "fulfilled", ![n].token = n]
    /\ UNCHANGED <<now, tokenPromise, caller, feeVars, sortVars, aggVars, adapterVars,
                   factoryVars, storeVars>>

\* exchange n fails: a timeout, a status that is not OK, no access_token
TokenRefused(n) ==
    /\ exchanges[n].state = "pending"
    /\ exchanges' = [exchanges EXCEPT ![n].state = "rejected"]
    /\ UNCHANGED <<now, tokenCache, tokenPromise, caller, feeVars, sortVars, aggVars, adapterVars,
                   factoryVars, storeVars>>

\* the caller that started the exchange resumes: finally { tokenPromise = null }
OwnerResumes_ClearsOnSuccess(c) ==
    /\ caller[c].pc = "awaitOwn"
    /\ exchanges[caller[c].exchange].state # "pending"
    /\ tokenPromise' = IF exchanges[caller[c].exchange].state = "fulfilled" THEN 0
                       ELSE tokenPromise
    /\ caller' = [caller EXCEPT ![c].pc = "done", ![c].result = Outcome(caller[c].exchange)]
    /\ UNCHANGED <<now, tokenCache, exchanges, feeVars, sortVars, aggVars, adapterVars,
                   factoryVars, storeVars>>
OwnerResumes(c) ==
    /\ caller[c].pc = "awaitOwn"
    /\ exchanges[caller[c].exchange].state # "pending"
    /\ tokenPromise' = 0
    /\ caller' = [caller EXCEPT ![c].pc = "done", ![c].result = Outcome(caller[c].exchange)]
    /\ UNCHANGED <<now, tokenCache, exchanges, feeVars, sortVars, aggVars, adapterVars,
                   factoryVars, storeVars>>

\* a caller that returned the promise in flight receives its outcome
JoinerResumes(c) ==
    /\ caller[c].pc = "awaitJoin"
    /\ exchanges[caller[c].exchange].state # "pending"
    /\ caller' = [caller EXCEPT ![c].pc = "done", ![c].result = Outcome(caller[c].exchange)]
    /\ UNCHANGED <<now, tokenCache, tokenPromise, exchanges, feeVars, sortVars, aggVars, adapterVars,
                   factoryVars, storeVars>>

Tick ==
    /\ now < StartMs + MaxTicks * TickMs
    /\ now' = now + TickMs
    /\ UNCHANGED <<tokenCache, tokenPromise, exchanges, caller, feeVars, sortVars, aggVars, adapterVars,
                   factoryVars, storeVars>>

CallGetAccessToken == \E c \in Callers : GetAccessToken(c)

TokenResponse == \E n \in DOMAIN exchanges : TokenGranted(n)

TokenFailure == \E n \in DOMAIN exchanges : TokenRefused(n)

OwnerResume == \E c \in Callers : OwnerResumes(c)

JoinerResume == \E c \in Callers : JoinerResumes(c)

TokenNext ==
    \/ CallGetAccessToken
    \/ TokenResponse
    \/ TokenFailure
    \/ OwnerResume
    \/ JoinerResume
    \/ Tick

TokenIdle ==
    /\ now = 0
    /\ tokenCache = <<>>
    /\ tokenPromise = 0
    /\ exchanges = <<>>
    /\ caller = <<>>

(***************************************************************************)
(* FedExAdapter.fetchRates: one call on an adapter whose token cache holds *)
(* what earlier calls left.  Weights are counted in hundredths of their    *)
(* unit and compared in units of 10^-8 kg.                                 *)
(*   network[n].state  "pending"    fetch awaits the response              *)
(*                     "responded"  fetch resolved with a response         *)
(*                     "failed"     fetch rejected by itself               *)
(*                     "aborted"    controller.abort() ended it            *)
(*   network[n].timer  "armed" | "cleared" | "fired"                       *)
(***************************************************************************)
MaxServices == 2    \* services in one FedEx rate response

ENVELOPE_MAX_KG == 50      \* PACKAGING_LIMITS.ENVELOPE.maxKg, 0.5 kg
TUBE_MAX_KG == 910         \* PACKAGING_LIMITS.TUBE.maxKg, 9.1 kg

Weight(value, unit) == [value |-> value, unit |-> unit]

\* weight.unit === 'lbs' ? weight.value * 0.453592 : weight.value
weightKg(weight) ==
    IF weight.unit = "lbs" THEN weight.value * 453592 ELSE weight.value * 1000000

EnvelopeLimitError ==
    Error({"FedEx", "Envelope", "max", "weight", "is", "kg", "Your", "package", "weighs"})
TubeLimitError ==
    Error({"FedEx", "Tube", "max", "weight", "is", "kg", "Your", "package", "weighs"})

getPackagingType(packageType, weight) ==
    IF packageType = "envelope"
    THEN IF weightKg(weight) > ENVELOPE_MAX_KG * 1000000
         THEN Throw(EnvelopeLimitError) ELSE Return("FEDEX_ENVELOPE")
    ELSE IF packageType = "tube"
    THEN IF weightKg(weight) > TUBE_MAX_KG * 1000000
         THEN Throw(TubeLimitError) ELSE Return("FEDEX_TUBE")
    ELSE Return("YOUR_PACKAGING")

\* buildFedExRequest throws what getPackagingType throws
buildFedExRequest(req) == getPackagingType(req.packageType, req.weight)

\* the packages drawn: on both sides of each limit, in both units
Weights ==
    {Weight(50, "kg"), Weight(51, "kg"), Weight(911, "kg"),
     Weight(110, "lbs"), Weight(111, "lbs"), Weight(2500, "lbs")}

FetchRequests ==
    [packageType : {"envelope", "tube", "box"}, weight : Weights,
     speed : {"all", "overnight"}]

\* ---- what the network may answer ----
Alert(alertType, message) == [alertType |-> alertType, message |-> message]

AlertLists ==
    {<<>>,
     <<Alert("WARNING", {"Rates", "may", "vary"})>>,
     <<Alert("NOTE", {"timeout"}), Alert("ERROR", {"Invalid", "postal", "code"})>>,
     <<Alert("ERROR", {"Gateway", "timeout"})>>}

ReplyDetails ==
    {\* an account rate whose charges add up
     ReplyDetail("PRIORITY_OVERNIGHT",
                 <<RatedShipment("LIST", NetObject(1900), <<>>, <<1780>>,
                                 <<Surcharge("FUEL", 120)>>),
                   RatedShipment("ACCOUNT", NetObject(1620), <<>>, <<1500>>,
                                 <<Surcharge("FUEL", 120)>>)>>,
                 <<2>>),
     \* a list rate without totalBaseCharge, no delivery commitment
     ReplyDetail("FEDEX_GROUND",
                 <<RatedShipment("LIST", NetNumber(4275), <<>>, <<>>, <<>>)>>, <<>>),
     \* a service type outside the table, duties and taxes on top of the net charge
     ReplyDetail("GROUND_HOME_DELIVERY",
                 <<RatedShipment("PREFERRED_INCENTIVE", NetObject(4500), <<5000>>, <<4000>>,
                                 <<Surcharge("RESIDENTIAL_DELIVERY", 400),
                                   Surcharge("PEAK_SEASON", 100)>>)>>,
                 <<1>>),
     \* no rated shipment at all
     ReplyDetail("FEDEX_2_DAY", <<>>, <<3>>),
     \* a rated shipment no total can be extracted from
     ReplyDetail("FIRST_OVERNIGHT",
                 <<RatedShipment("ACCOUNT", NetWithoutAmount, <<>>, <<2000>>, <<>>)>>, <<1>>)}

\* a response of the rate endpoint: its status, whether its body parses, and
\* the output of the parsed body
RateResponses ==
    {[ok |-> FALSE, parses |-> TRUE, alerts |-> <<>>, rateReplyDetails |-> <<>>],
     [ok |-> TRUE, parses |-> FALSE, alerts |-> <<>>, rateReplyDetails |-> <<>>]}
    \cup [ok : {TRUE}, parses : {TRUE}, alerts : AlertLists,
          rateReplyDetails : SeqsUpTo(ReplyDetails, MaxServices)]

\* a response of the token endpoint; access_token is optional
TokenResponses ==
    {[ok |-> FALSE, access_token |-> <<>>, expires_in |-> 0],
     [ok |-> TRUE, access_token |-> <<>>, expires_in |-> 900]}
    \cup [ok : {TRUE}, access_token : {<<1>>}, expires_in : ExpiresIn]

\* ---- the errors of the adapter ----
\* what fetch rejects with once its signal is aborted
AbortError == [isError |-> TRUE, message |-> {"This", "operation", "was", "aborted"}]
\* what fetch rejects with when the connection cannot be made
FetchFailedError == Error({"fetch failed"})
\* response.json() on a body that is no JSON
JsonSyntaxError == Error({"Unexpected", "token", "in", "JSON"})
TokenStatusError == Error({"Failed", "to", "get", "FedEx", "access", "token"})
InvalidTokenError ==
    Error({"FedEx", "API", "returned", "invalid", "token", "access_token", "is", "missing"})
AlertError(alert) == Error({"FedEx", "API", "Error"} \cup alert.message)

\* the catch block of fetchWithTimeout, after clearTimeout
fetchWithTimeoutCatch_Rethrow(error) == error
fetchWithTimeoutCatch(error) == IF error = AbortError THEN TimeoutError ELSE error

\* ---- normalisation of a parsed rate response ----
ErrorAlerts(alerts) == SelectSeq(alerts, LAMBDA a : a.alertType = "ERROR")

handleAlerts(alerts) ==
    IF ErrorAlerts(alerts) # <<>> THEN Throw(AlertError(ErrorAlerts(alerts)[1]))
    ELSE Return(<<>>)

\* the services of the loop whose rate is selected but yields no total
Unextractable(rateReplyDetails) ==
    {i \in DOMAIN rateReplyDetails :
        /\ selectRate(rateReplyDetails[i].ratedShipmentDetails) # <<>>
        /\ ~extractTotalCharge(selectRate(rateReplyDetails[i].ratedShipmentDetails)[1]).ok}

adaptFedExResponse(rateResponse) ==
    IF ~handleAlerts(rateResponse.alerts).ok THEN handleAlerts(rateResponse.alerts)
    ELSE IF Unextractable(rateResponse.rateReplyDetails) # {} THEN Throw(ExtractionError)
    ELSE Return(adaptResponse(CARRIER_NAME, rateResponse.rateReplyDetails))

\* callFedExAPI from the response of the rate endpoint on
parseRateResponse(rateResponse) ==
    IF ~rateResponse.ok THEN Throw(ApiError)
    ELSE IF ~rateResponse.parses THEN Throw(JsonSyntaxError)
    ELSE Return(rateResponse)

\* fetchRates from the response of the rate endpoint on
ratesOf_AllTiers(req, rateResponse) ==
    IF ~parseRateResponse(rateResponse).ok THEN parseRateResponse(rateResponse)
    ELSE adaptFedExResponse(rateResponse)
ratesOf(req, rateResponse) ==
    IF ~parseRateResponse(rateResponse).ok THEN parseRateResponse(rateResponse)
    ELSE IF ~adaptFedExResponse(rateResponse).ok THEN adaptFedExResponse(rateResponse)
    ELSE IF req.speed = "all" THEN adaptFedExResponse(rateResponse)
    ELSE Return(SelectSeq(adaptFedExResponse(rateResponse).value,
                          LAMBDA rate : rate.speed = req.speed))

\* fetchWithTimeout up to its await: the timer is armed and fetch is called
fetchWithTimeout(net, url) ==
    Append(net, [url |-> url, state |-> "pending", timer |-> "armed"])

\* fetch settled: the state of the call, and clearTimeout
Settle(net, state) ==
    [net EXCEPT ![Len(net)].state = state,
                ![Len(net)].timer = IF @ = "armed" THEN "cleared" ELSE @]

AdapterInit ==
    /\ fetchRequest \in FetchRequests
    /\ adapterPc = "idle"
    /\ network = <<>>
    /\ outcome = <<>>
    /\ rawData = <<>>
    /\ cancelled = FALSE
    /\ now = StartMs
    /\ tokenCache \in InitialCaches
    /\ tokenPromise = 0
    /\ exchanges = <<>>
    /\ caller = <<>>

\* callFedExAPI once it holds the access token: build the request, then send it
SendRateRequest(net) ==
    IF buildFedExRequest(fetchRequest).ok
    THEN /\ adapterPc' = "rate"
         /\ network' = fetchWithTimeout(net, "RATES")
         /\ outcome' = outcome
    ELSE /\ adapterPc' = "settled"
         /\ network' = net
         /\ outcome' = <<buildFedExRequest(fetchRequest)>>

\* fetchRates is called: getAccessToken up to its await, and what follows at
\* once when the token comes from the cache
FetchRates ==
    /\ adapterPc = "idle"
    /\ IF cacheValid(tokenCache, now)
       THEN /\ SendRateRequest(network)
            /\ UNCHANGED tokenPromise
       ELSE /\ tokenPromise' = 1
            /\ network' = fetchWithTimeout(network, "OAUTH_TOKEN")
            /\ adapterPc' = "token"
            /\ UNCHANGED outcome
    /\ UNCHANGED <<fetchRequest, rawData, cancelled, now, tokenCache, exchanges, caller,
                   feeVars, sortVars, aggVars,
                   factoryVars, storeVars>>

\* the token endpoint responds: the rest of fetchNewToken and of getAccessToken,
\* then callFedExAPI goes on
TokenEndpointResponds ==
    /\ adapterPc = "token"
    /\ \E r \in TokenResponses :
          /\ tokenPromise' = 0
          /\ IF ~r.ok
             THEN /\ adapterPc' = "settled"
                  /\ network' = Settle(network, "responded")
                  /\ outcome' = <<Throw(TokenStatusError)>>
                  /\ UNCHANGED tokenCache
             ELSE IF r.access_token = <<>>
             THEN /\ adapterPc' = "settled"
                  /\ network' = Settle(network, "responded")
                  /\ outcome' = <<Throw(InvalidTokenError)>>
                  /\ UNCHANGED tokenCache
             ELSE /\ tokenCache' =
                       <<[token |-> r.access_token[1],
                          expiresAt |-> now + (IF r.expires_in # 0 THEN r.expires_in
                                               ELSE DEFAULT_TOKEN_EXPIRY_SEC) * 1000]>>
                  /\ SendRateRequest(Settle(network, "responded"))
    /\ UNCHANGED <<fetchRequest, rawData, cancelled, now, exchanges, caller,
                   feeVars, sortVars, aggVars,
                   factoryVars, storeVars>>

\* the rate endpoint responds: the rest of callFedExAPI and of fetchRates
RateEndpointResponds ==
    /\ adapterPc = "rate"
    /\ \E r \in RateResponses :
          /\ adapterPc' = "settled"
          /\ network' = Settle(network, "responded")
          /\ outcome' = <<ratesOf(fetchRequest, r)>>
          /\ rawData' = <<r>>
    /\ UNCHANGED <<fetchRequest, cancelled, tokenVars, feeVars, sortVars, aggVars,
                   factoryVars, storeVars>>

\* fetch rejects by itself: the catch of fetchWithTimeout rethrows
FetchRejects ==
    /\ adapterPc \in {"token", "rate"}
    /\ adapterPc' = "settled"
    /\ network' = Settle(network, "failed")
    /\ outcome' = <<Throw(fetchWithTimeoutCatch(FetchFailedError))>>
    /\ tokenPromise' = 0
    /\ UNCHANGED <<fetchRequest, rawData, cancelled, now, tokenCache, exchanges, caller,
                   feeVars, sortVars, aggVars,
                   factoryVars, storeVars>>

\* the timer fires before fetch settles: controller.abort(), fetch rejects
\* with the abort error, the catch of fetchWithTimeout translates it
TimerFires ==
    /\ adapterPc \in {"token", "rate"}
    /\ Last(network).timer = "armed"
    /\ adapterPc' = "settled"
    /\ network' = Settle([network EXCEPT ![Len(network)].timer = "fired"], "aborted")
    /\ outcome' = <<Throw(fetchWithTimeoutCatch(AbortError))>>
    /\ tokenPromise' = 0
    /\ UNCHANGED <<fetchRequest, rawData, cancelled, now, tokenCache, exchanges, caller,
                   feeVars, sortVars, aggVars,
                   factoryVars, storeVars>>

\* the caller gives the call up (the page is left, the request of the API route
\* is aborted): fetchRates takes no signal and the AbortController of
\* fetchWithTimeout is local to it, so nothing of the adapter reads this
CallerCancels ==
    /\ adapterPc \in {"token", "rate"}
    /\ ~cancelled
    /\ cancelled' = TRUE
    /\ UNCHANGED <<fetchRequest, adapterPc, network, outcome, rawData,
                   tokenVars, feeVars, sortVars, aggVars,
                   factoryVars, storeVars>>

AdapterNext ==
    \/ FetchRates
    \/ CallerCancels
    \/ TokenEndpointResponds
    \/ RateEndpointResponds
    \/ FetchRejects
    \/ TimerFires

AdapterIdle ==
    /\ fetchRequest = [packageType |-> "box", weight |-> Weight(100, "kg"), speed |-> "all"]
    /\ adapterPc = "idle"
    /\ network = <<>>
    /\ outcome = <<>>
    /\ rawData = <<>>
    /\ cancelled = FALSE

(***************************************************************************)
(* The adapter registry.  The record `adapters' is built when the module   *)
(* is loaded, one adapter object per carrier id it names; getCarrierAdapter *)
(* looks the carrier up in it.  An adapter object is a position in         *)
(* `instances'; what a caller holds of it is that position.                *)
(***************************************************************************)
MaxResolves == 3    \* calls of getCarrierAdapter in one run
MaxTokens == 2      \* distinct access tokens stored in one run

\* the carrier ids of the record literal, in its order
RegistryLists == {<<"FedEx">>, <<"FedEx", "UPS">>}

\* new FedExAdapter(credentials): tokenCache = null
FedExAdapter(carrier) == [carrier |-> carrier, tokenCache |-> <<>>]

ResolvedCarriers == {"FedEx", "UPS", ""}

\* the lookup; no adapter object is constructed by it
getCarrierAdapter_NewInstance(map, objects, carrier) ==
    IF carrier \in DOMAIN map
    THEN [result |-> Return(Len(objects) + 1),
          instances |-> Append(objects, FedExAdapter(carrier))]
    ELSE [result |-> Throw(UnknownCarrierError(carrier)), instances |-> objects]
getCarrierAdapter(map, objects, carrier) ==
    [result |-> IF carrier \in DOMAIN map THEN Return(map[carrier])
                ELSE Throw(UnknownCarrierError(carrier)),
     instances |-> objects]

FactoryInit ==
    /\ \E list \in RegistryLists :
          /\ instances = [i \in DOMAIN list |-> FedExAdapter(list[i])]
          /\ adapters = [c \in {list[i] : i \in DOMAIN list} |->
                           CHOOSE i \in DOMAIN list : list[i] = c]
    /\ resolved = <<>>
    /\ stored = [c \in ResolvedCarriers |-> <<>>]

\* a caller resolves a carrier id and reads the token cache of what it got
GetCarrierAdapter(carrier) ==
    /\ Len(resolved) < MaxResolves
    /\ LET r == getCarrierAdapter(adapters, instances, carrier)
       IN  /\ instances' = r.instances
           /\ resolved' =
                Append(resolved,
                       [carrier |-> carrier, result |-> r.result,
                        saw |-> IF r.result.ok
                                THEN r.instances[r.result.value].tokenCache
                                ELSE <<>>])
    /\ UNCHANGED <<adapters, stored, feeVars, sortVars, aggVars, tokenVars, adapterVars,
                   storeVars>>

\* fetchNewToken on the adapter object call k of getCarrierAdapter returned:
\* this.tokenCache is set
StoreToken(k, token) ==
    /\ resolved[k].result.ok
    /\ instances' = [instances EXCEPT ![resolved[k].result.value].tokenCache = <<token>>]
    /\ stored' = [stored EXCEPT ![resolved[k].carrier] = <<token>>]
    /\ UNCHANGED <<adapters, resolved, feeVars, sortVars, aggVars, tokenVars, adapterVars,
                   storeVars>>

Resolve == \E carrier \in ResolvedCarriers : GetCarrierAdapter(carrier)

FetchNewToken == \E k \in DOMAIN resolved : \E token \in 1..MaxTokens : StoreToken(k, token)

FactoryNext ==
    \/ Resolve
    \/ FetchNewToken

FactoryIdle ==
    /\ adapters = [c \in {"FedEx"} |-> 1]
    /\ instances = <<FedExAdapter("FedEx")>>
    /\ resolved = <<>>
    /\ stored = [c \in ResolvedCarriers |-> <<>>]

(***************************************************************************)
(* The result cache of the results page: saveResults, loadResults and      *)
(* createRatesPromise over the one localStorage item.  A Date is           *)
(* [date |-> t]; JSON.stringify writes it as its ISO string [iso |-> t],   *)
(* and JSON.parse gives that string back, not a Date.                      *)
(***************************************************************************)
MaxStoreTicks == 4  \* steps of the browser's clock

RESULTS_TTL_MINUTES == 30
RESULTS_TTL_MS == RESULTS_TTL_MINUTES * 60 * 1000

StoreTickMs == 10 * 60 * 1000

\* the request fields of the form data
FormStates ==
    [package : {"box"}, origin : {"10001"}, destination : {"94105", "60601"},
     options : {"standard"}]

DateOf(t) == [date |-> t]
toISOString(d) == [iso |-> d.date]

\* what the API route answers with, after the page has revived its dates
ApiResponses ==
    {[requestId |-> "a", errors |-> <<>>, timestamp |-> DateOf(1),
      rates |-> <<[totalCost |-> 1620, estimatedDeliveryDate |-> DateOf(2)]>>],
     [requestId |-> "b", errors |-> <<"FedEx">>, timestamp |-> DateOf(1), rates |-> <<>>]}

\* the catch of createRatesPromise: the result it returns instead
ErrorResponse ==
    [requestId |-> "result-error", errors |-> <<"FedEx">>, timestamp |-> DateOf(1),
     rates |-> <<>>]

JSONstringify(storedResults) ==
    [json |->
       [storedResults EXCEPT
          !.response.timestamp = toISOString(@),
          !.response.rates =
              [i \in DOMAIN @ |-> [@[i] EXCEPT !.estimatedDeliveryDate = toISOString(@)]]]]

JSONparse(text) == text.json

\* localStorage.setItem throws when the quota is exceeded; the catch logs it
saveResults(storage, rateRequest, rateResponse, at, quotaOk) ==
    IF quotaOk
    THEN <<JSONstringify([response |-> rateResponse, request |-> rateRequest,
                          timestamp |-> at])>>
    ELSE storage

clearResults(storage) == <<>>

\* the expiry test of loadResults
expired_AtTTL(age) == age >= RESULTS_TTL_MS
expired(age) == age > RESULTS_TTL_MS

\* the value loadResults returns (<<>> for null) and the storage it leaves
loadResults(storage, at) ==
    IF storage = <<>> THEN [result |-> <<>>, localStorage |-> storage]
    ELSE IF expired(at - JSONparse(storage[1]).timestamp)
         THEN [result |-> <<>>, localStorage |-> clearResults(storage)]
         ELSE [result |-> <<JSONparse(storage[1])>>, localStorage |-> storage]

StoreInit ==
    /\ clock = 0
    /\ formState \in FormStates
    /\ localStorage = <<>>
    /\ ratesPromise = [pc |-> "idle", request |-> formState, result |-> <<>>,
                       cached |-> FALSE]
    /\ loaded = [at |-> 0, found |-> <<>>, result |-> <<>>]

\* createRatesPromise up to its await: the cached response on a hit, the
\* call of /api/rates on a miss
CreateRatesPromise ==
    /\ ratesPromise.pc # "fetching"
    /\ LET l == loadResults(localStorage, clock)
       IN  /\ loaded' = [at |-> clock, found |-> localStorage, result |-> l.result]
           /\ localStorage' = l.localStorage
           /\ ratesPromise' =
                IF l.result # <<>>
                THEN [pc |-> "settled", request |-> formState,
                      result |-> <<l.result[1].response>>, cached |-> TRUE]
                ELSE [pc |-> "fetching", request |-> formState, result |-> <<>>,
                      cached |-> FALSE]
    /\ UNCHANGED <<clock, formState, feeVars, sortVars, aggVars, tokenVars, adapterVars,
                   factoryVars>>

\* /api/rates answers: the response is saved under the request it was asked for
ApiResponds ==
    /\ ratesPromise.pc = "fetching"
    /\ \E rateResponse \in ApiResponses, quotaOk \in BOOLEAN :
          /\ localStorage' = saveResults(localStorage, ratesPromise.request,
                                         rateResponse, clock, quotaOk)
          /\ ratesPromise' = [ratesPromise EXCEPT !.pc = "settled",
                                                  !.result = <<rateResponse>>]
    /\ UNCHANGED <<clock, formState, loaded, feeVars, sortVars, aggVars, tokenVars,
                   adapterVars, factoryVars>>

\* the call of /api/rates fails: nothing is saved
ApiFails ==
    /\ ratesPromise.pc = "fetching"
    /\ ratesPromise' = [ratesPromise EXCEPT !.pc = "settled", !.result = <<ErrorResponse>>]
    /\ UNCHANGED <<clock, formState, localStorage, loaded, feeVars, sortVars, aggVars,
                   tokenVars, adapterVars, factoryVars>>

\* the user goes back to the form and changes the shipment
ChangeForm ==
    /\ \E f \in FormStates : f # formState /\ formState' = f
    /\ UNCHANGED <<clock, localStorage, ratesPromise, loaded, feeVars, sortVars, aggVars,
                   tokenVars, adapterVars, factoryVars>>

StoreTick ==
    /\ clock < MaxStoreTicks * StoreTickMs
    /\ clock' = clock + StoreTickMs
    /\ UNCHANGED <<formState, localStorage, ratesPromise, loaded, feeVars, sortVars, aggVars,
                   tokenVars, adapterVars, factoryVars>>

StoreNext ==
    \/ CreateRatesPromise
    \/ ApiResponds
    \/ ApiFails
    \/ ChangeForm
    \/ StoreTick

StoreIdle ==
    /\ clock = 0
    /\ formState = [package |-> "box", origin |-> "10001", destination |-> "94105",
                    options |-> "standard"]
    /\ localStorage = <<>>
    /\ ratesPromise = [pc |-> "idle", request |-> formState, result |-> <<>>,
                       cached |-> FALSE]
    /\ loaded = [at |-> 0, found |-> <<>>, result |-> <<>>]

(***************************************************************************)
(* Specifications.                                                         *)
(***************************************************************************)
FeeIdle ==
    /\ component = BaseRate(0)
    /\ wrapped = component
    /\ lastOp = [op |-> "new", options |-> NoOptions]

SortIdle ==
    /\ merged = <<>>
    /\ sortedRates = <<>>

Init == AggInit /\ FeeIdle /\ SortIdle /\ TokenIdle /\ AdapterIdle /\ FactoryIdle /\ StoreIdle
Spec == Init /\ [][AggNext]_vars

InitFees == FeeInit /\ SortIdle /\ AggIdle /\ TokenIdle /\ AdapterIdle /\ FactoryIdle /\ StoreIdle
SpecFees == InitFees /\ [][FeeNext]_vars

InitSort == SortInit /\ FeeIdle /\ AggIdle /\ TokenIdle /\ AdapterIdle /\ FactoryIdle /\ StoreIdle
SpecSort == InitSort /\ [][SortNext]_vars

InitToken == TokenInit /\ FeeIdle /\ SortIdle /\ AggIdle /\ AdapterIdle /\ FactoryIdle /\ StoreIdle
SpecToken == InitToken /\ [][TokenNext]_vars

InitAdapter == AdapterInit /\ FeeIdle /\ SortIdle /\ AggIdle /\ FactoryIdle /\ StoreIdle
SpecAdapter == InitAdapter /\ [][AdapterNext]_vars

InitFactory ==
    FactoryInit /\ FeeIdle /\ SortIdle /\ AggIdle /\ TokenIdle /\ AdapterIdle /\ StoreIdle
SpecFactory == InitFactory /\ [][FactoryNext]_vars

InitStore ==
    StoreInit /\ FeeIdle /\ SortIdle /\ AggIdle /\ TokenIdle /\ AdapterIdle /\ FactoryIdle
SpecStore == InitStore /\ [][StoreNext]_vars

RECURSIVE SumAmounts(_)
SumAmounts(fees) ==
    IF fees = <<>> THEN 0 ELSE SumAmounts(Front(fees)) + Last(fees).amount

BagOfSeq(s) ==
    [x \in {s[i] : i \in DOMAIN s} |-> Cardinality({i \in DOMAIN s : s[i] = x})]

CountType(fees, type) == Cardinality({i \in DOMAIN fees : fees[i].type = type})

Bijections(n) == {p \in [1..n -> 1..n] : \A i, j \in 1..n : p[i] = p[j] => i = j}

Permuted(c, p) == [c EXCEPT !.stack = [i \in DOMAIN c.stack |-> c.stack[p[i]]]]

DistinctKinds(c) ==
    \A i, j \in DOMAIN c.stack : c.stack[i].kind = c.stack[j].kind => i = j

\* the fees the last operation added to those of the component it wrapped
AddedFees ==
    SubSeq(getFees(component), Len(getFees(wrapped)) + 1, Len(getFees(component)))

ApplicableFees(options, insured) ==
    /\ CountType(AddedFees, "signature") = IF options.signatureRequired THEN 1 ELSE 0
    /\ CountType(AddedFees, "fragilehandling") = IF options.fragileHandling THEN 1 ELSE 0
    /\ CountType(AddedFees, "saturdaydelivery") = IF options.saturdayDelivery THEN 1 ELSE 0
    /\ CountType(AddedFees, "insurance") = IF insured THEN 1 ELSE 0
    /\ Len(AddedFees) = CountType(AddedFees, "signature")
                        + CountType(AddedFees, "fragilehandling")
                        + CountType(AddedFees, "saturdaydelivery")
                        + CountType(AddedFees, "insurance")
    /\ getCost(component) = getCost(wrapped) + SumAmounts(AddedFees)
    /\ (~options.signatureRequired /\ ~options.insurance /\ ~options.fragileHandling
          /\ ~options.saturdayDelivery)
       => /\ getCost(component) = getCost(wrapped)
          /\ getFees(component) = getFees(wrapped)

C10_AsClaimed ==
    lastOp.op = "applyFees" =>
        ApplicableFees(lastOp.options,
                       lastOp.options.insurance /\ lastOp.options.insuredValue # <<>>)

\* C10 as amended: the insurance fee is there if and only if insurance is true
\* and an insured value other than 0 is supplied.
C10_ApplicableFees ==
    lastOp.op = "applyFees" =>
        ApplicableFees(lastOp.options,
                       /\ lastOp.options.insurance
                       /\ lastOp.options.insuredValue # <<>>
                       /\ lastOp.options.insuredValue[1] # 0)

\* every flag set and no insured value: three fees, none of them insurance
C10_Witness ==
    /\ lastOp.op = "applyFees"
    /\ lastOp.options.signatureRequired /\ lastOp.options.insurance
    /\ lastOp.options.fragileHandling /\ lastOp.options.saturdayDelivery
    /\ lastOp.options.insuredValue = <<>>
    /\ wrapped.stack = <<>>
    /\ Len(getFees(component)) = 3

(***************************************************************************)
(* Helpers of the aggregation claims.                                      *)
(***************************************************************************)
Carriers == targetCarriers(request)

Rejected(i) == task[i].pc = "rejected"
Fulfilled(i) == task[i].pc = "fulfilled"

\* the rejected tasks among the first n whose carrier id is not empty
Recorded(n) == {k \in 1..n : Rejected(k) /\ Carriers[k] # ""}

\* the entry of the errors list that stands for task i
ErrorOf(i) == response[1].errors[Cardinality(Recorded(i))]

AllRecoverable(i) == \A k \in DOMAIN task[i].failures : task[i].failures[k]

\* every quote of task i is in the rates, as often as the task returned it
KeepsQuotesOf(i) ==
    \A k \in DOMAIN task[i].value :
        Cardinality({n \in DOMAIN response[1].rates : response[1].rates[n] = task[i].value[k]})
          >= Cardinality({n \in DOMAIN task[i].value : task[i].value[n] = task[i].value[k]})

(***************************************************************************)
(* C1  Retry bound.  As claimed: a carrier whose adapter fails with a      *)
(* recoverable error on every attempt is invoked exactly 3 times in total  *)
(* and yields exactly one CarrierError with recoverable = true.            *)
(***************************************************************************)
ExhaustedRecoverably(i) ==
    /\ Carriers[i] \in registry
    /\ Rejected(i)
    /\ AllRecoverable(i)

OneRecoverableError(i) ==
    /\ Len(response[1].errors) = Cardinality(Recorded(Len(Carriers)))
    /\ ErrorOf(i).carrier = Carriers[i]
    /\ ErrorOf(i).recoverable = TRUE

C2_FailureIsolation ==
    phase = "returned" =>
        \A a, b \in DOMAIN task :
            (/\ Carriers[a] # Carriers[b]
             /\ Carriers[a] \in registry
             /\ Rejected(a) /\ task[a].failures = <<FALSE>>
             /\ Fulfilled(b) /\ task[b].failures = <<>>)
            => /\ response[1].status = "fulfilled"
               /\ Cardinality({k \in DOMAIN response[1].errors :
                                 response[1].errors[k].carrier = Carriers[a]})
                    = Cardinality({k \in DOMAIN task : Carriers[k] = Carriers[a] /\ Rejected(k)})
               /\ ErrorOf(a).carrier = Carriers[a]
               /\ ErrorOf(a).recoverable = FALSE
               /\ ErrorOf(a).message = task[a].error.message
               /\ KeepsQuotesOf(b)
               /\ (Len(Carriers) = 2
                     => /\ Len(response[1].errors) = 1
                        /\ Len(response[1].rates) = Len(task[b].value))

\* A fails with an API error, B answers with a quote
C2_Witness ==
    /\ phase = "returned"
    /\ Carriers = <<"UPS", "FedEx">>
    /\ Rejected(1) /\ task[1].error = ApiError /\ task[1].invocations = 1
    /\ Fulfilled(2) /\ task[2].invocations = 1
    /\ Len(task[2].value) = 1
    /\ response[1].rates = task[2].value
    /\ Len(response[1].errors) = 1

(***************************************************************************)
(* C4  Wait-for-all join: fetchAllRates returns only after every           *)
(* per-carrier task is settled; no task is in flight or backing off when   *)
(* the result is returned, whichever task failed first.                    *)
(***************************************************************************)
C4_WaitForAll ==
    phase = "returned" =>
        \A i \in DOMAIN task : task[i].pc \notin {"attempt", "retry", "backoff"}

\* one task failed on its first attempt, the other went through all its retries
C4_Witness ==
    /\ phase = "returned"
    /\ Len(Carriers) = 2
    /\ Rejected(1) /\ task[1].invocations = 1
    /\ task[2].invocations = 4
    /\ Fulfilled(2)

C7_FeesApplied ==
    (phase = "returned" /\ request.options = ExampleOptions) =>
        \A k \in DOMAIN response[1].rates :
            LET q == response[1].rates[k]
                composed == applyFees(BaseRate(q.baseRate), request.options)
            IN  /\ q.totalCost = getCost(composed)
                /\ q.additionalFees = getFees(composed)
                /\ q.baseRate = 1500 =>
                      /\ q.totalCost = 2300
                      /\ \E f \in DOMAIN q.additionalFees :
                            /\ q.additionalFees[f].type = "signature"
                            /\ q.additionalFees[f].amount = 550
                      /\ \E f \in DOMAIN q.additionalFees :
                            /\ q.additionalFees[f].type = "insurance"
                            /\ q.additionalFees[f].amount = 250

(***************************************************************************)
(* C3  Single-flight token refresh: when the concurrent callers on one     *)
(* adapter all find the token missing, expired or inside the refresh       *)
(* buffer, exactly one token exchange is issued and every caller receives  *)
(* the outcome of that one exchange.  Callers are concurrent when each     *)
(* called getAccessToken before any token exchange had settled.  At no     *)
(* time are two token exchanges in flight.                                 *)
(***************************************************************************)
C3_SingleFlight ==
    /\ Cardinality({n \in DOMAIN exchanges : exchanges[n].state = "pending"}) <= 1
    /\ (\A c \in Callers :
           caller[c].pc # "idle" /\ caller[c].stale /\ caller[c].settledAtEntry = 0)
       => /\ Len(exchanges) = 1
          /\ \A c \in Callers :
                /\ caller[c].exchange = 1
                /\ caller[c].pc = "done" =>
                      /\ exchanges[1].state # "pending"
                      /\ caller[c].result.status = "token" <=> exchanges[1].state = "fulfilled"
                      /\ caller[c].result.status = "token" =>
                            /\ caller[c].result.token = exchanges[1].token
                            /\ tokenCache # <<>>
                            /\ tokenCache[1].token = caller[c].result.token

\* three callers found the cached token inside the refresh buffer; one exchange
\* was issued and all three hold its token
C3_Witness ==
    /\ \A c \in Callers : caller[c].pc = "done" /\ caller[c].stale
    /\ Len(exchanges) = 1
    /\ exchanges[1].state = "fulfilled"
    /\ \A c \in Callers : caller[c].result = [status |-> "token", token |-> 1]
    /\ Cardinality({c \in Callers : caller[c].exchange = 1}) >= 3

(***************************************************************************)
(* Helpers of the retry claims.                                            *)
(***************************************************************************)
\* the entries of the errors list that name carrier c
ErrorsFor(c) == {k \in DOMAIN response[1].errors : response[1].errors[k].carrier = c}

\* the tasks started for carrier c that ended rejected
RejectedFor(c) == {k \in DOMAIN task : Carriers[k] = c /\ Rejected(k)}

\* task i went through every pass of the loop of retryWithBackoff
Exhausted(i) == Rejected(i) /\ task[i].attempt = MaxRetries - 1

(***************************************************************************)
(* C12  Non-recoverable errors are not retried: if a carrier's adapter     *)
(* fails on its first attempt with an error that is not classified as      *)
(* recoverable, the adapter is invoked exactly once for that carrier, at   *)
(* all times, and the result holds one CarrierError for the task, with     *)
(* recoverable = false (one for the carrier when the list names it once).  *)
(***************************************************************************)
C12_NoRetryOfNonRecoverable ==
    \A i \in DOMAIN task :
        (/\ Carriers[i] \in registry
         /\ task[i].failures # <<>>
         /\ ~task[i].failures[1])
        => /\ task[i].invocations = 1
           /\ Rejected(i)
           /\ task[i].failures = <<FALSE>>
           /\ task[i].delays = <<>>
           /\ phase = "returned" =>
                 /\ ErrorOf(i).carrier = Carriers[i]
                 /\ ErrorOf(i).recoverable = FALSE
                 /\ ErrorOf(i).message = task[i].error.message
                 /\ Cardinality(ErrorsFor(Carriers[i]))
                      = Cardinality(RejectedFor(Carriers[i]))

\* the only carrier answers its first call with an API error
C12_Witness ==
    /\ phase = "returned"
    /\ Carriers = <<"FedEx">>
    /\ task[1].error = ApiError
    /\ task[1].invocations = 1
    /\ response[1].rates = <<>>
    /\ Len(response[1].errors) = 1
    /\ response[1].errors[1].carrier = "FedEx"
    /\ ~response[1].errors[1].recoverable

(***************************************************************************)
(* C13  Within one carrier's task a further attempt is started only if the *)
(* attempt before it failed with a recoverable error: a failure that is    *)
(* not recoverable, on whichever attempt, is the last failure of the task, *)
(* the task is rejected with it and the adapter is not invoked again.      *)
(***************************************************************************)
C13_RetryOnlyAfterRecoverable ==
    \A i \in DOMAIN task :
        \A k \in DOMAIN task[i].failures :
            ~task[i].failures[k] =>
                /\ k = Len(task[i].failures)
                /\ Rejected(i)
                /\ task[i].invocations <= k

(***************************************************************************)
(* C14  Backoff precedes every retry: every invocation of the adapter      *)
(* after the first one of a task has a backoff delay of its own before it, *)
(* the second invocation included, and the k-th delay is 2^(k-1) seconds.  *)
(***************************************************************************)
C14_BackoffBeforeEveryRetry ==
    \A i \in DOMAIN task :
        /\ task[i].invocations <= Len(task[i].delays) + 1
        /\ \A k \in DOMAIN task[i].delays : task[i].delays[k] = Pow2(k - 1) * 1000

(***************************************************************************)
(* C15  CarrierError.recoverable tells how the task ended: recoverable is  *)
(* true for a task that ended by exhausting its retry attempts and false   *)
(* for a task that ended on a non-recoverable error; the error is an entry *)
(* of the result and the quotes of the other carriers are kept.            *)
(***************************************************************************)
C15_RecoverableTellsHowEnded ==
    phase = "returned" =>
        \A i \in DOMAIN task :
            (Rejected(i) /\ Carriers[i] # "") =>
                /\ response[1].status = "fulfilled"
                /\ ErrorOf(i).carrier = Carriers[i]
                /\ Exhausted(i) => ErrorOf(i).recoverable
                /\ ~Last(task[i].failures) => ~ErrorOf(i).recoverable
                /\ \A j \in DOMAIN task : Fulfilled(j) => KeepsQuotesOf(j)

(***************************************************************************)
(* C16  Target carrier set: the carriers queried are those of              *)
(* request.carriersFilter when the list is present and not empty, and the  *)
(* default list ['FedEx'] when it is absent or empty.                      *)
(***************************************************************************)
C16_TargetCarrierSet ==
    phase # "idle" =>
        LET allowList == IF request.carriersFilter # <<>> /\ request.carriersFilter[1] # <<>>
                         THEN request.carriersFilter[1]
                         ELSE <<"FedEx">>
        IN  [i \in DOMAIN task |-> task[i].carrier] = allowList

(***************************************************************************)
(* C17  Result coverage: in every result each carrier of the target list   *)
(* (the empty carrier id left aside) is represented by the quotes of a     *)
(* fulfilled task or by exactly one CarrierError, and no carrier has more  *)
(* than one CarrierError, also when the list names a carrier twice.        *)
(***************************************************************************)
C17_ResultCoverage ==
    phase = "returned" =>
        \A c \in {Carriers[i] : i \in DOMAIN Carriers} \ {""} :
            /\ Cardinality(ErrorsFor(c)) <= 1
            /\ \/ \E i \in DOMAIN task : Carriers[i] = c /\ Fulfilled(i)
               \/ Cardinality(ErrorsFor(c)) = 1

(***************************************************************************)
(* C19  Proactive token refresh: a call of getAccessToken is answered from *)
(* the cache, with no token exchange started or joined, exactly when the   *)
(* cached token expires more than 5 minutes (300000 ms) after the time of  *)
(* the call.  Otherwise the cached token is not handed out: the caller     *)
(* awaits the token exchange it started, or the one in flight, and         *)
(* receives the outcome of that exchange.                                  *)
(***************************************************************************)
C19_ProactiveRefresh ==
    /\ [](\A c \in Callers :
             (caller[c].pc = "done" /\ caller[c].exchange # 0) =>
                 /\ exchanges[caller[c].exchange].state # "pending"
                 /\ caller[c].result.status = "token"
                      <=> exchanges[caller[c].exchange].state = "fulfilled"
                 /\ caller[c].result.status = "token"
                      => caller[c].result.token = exchanges[caller[c].exchange].token)
    /\ [][\A c \in Callers :
             (caller[c].pc = "idle" /\ caller'[c].pc # "idle") =>
                 IF tokenCache # <<>> /\ tokenCache[1].expiresAt > now + 300000
                 THEN /\ caller'[c].pc = "done"
                      /\ caller'[c].exchange = 0
                      /\ caller'[c].result = [status |-> "token", token |-> tokenCache[1].token]
                      /\ exchanges' = exchanges
                 ELSE /\ caller'[c].pc \in {"awaitOwn", "awaitJoin"}
                      /\ caller'[c].exchange = Len(exchanges')
                      /\ caller'[c].exchange # 0
                      /\ caller'[c].result = NoToken
                      /\ tokenPromise = 0 <=> Len(exchanges') = Len(exchanges) + 1
                      /\ tokenPromise # 0 <=> exchanges' = exchanges]_vars

\* a token of 600 s was fetched at the start and handed out from the cache 150 s
\* later; at 300 s, 5 minutes before its expiry, a call started a second exchange
C19_Witness ==
    /\ Len(exchanges) = 2
    /\ exchanges[1].state = "fulfilled"
    /\ exchanges[2].state = "pending"
    /\ exchanges[2].startedAt = StartMs + 2 * TickMs
    /\ tokenCache = <<[token |-> 1, expiresAt |-> StartMs + 600 * 1000]>>
    /\ \E c \in Callers :
          /\ caller[c].pc = "done" /\ caller[c].exchange = 0
          /\ caller[c].result = [status |-> "token", token |-> 1]
    /\ \E c \in Callers : caller[c].pc = "awaitOwn" /\ caller[c].exchange = 2

(***************************************************************************)
(* C11  Quote total invariant: every quote FedExAdapter.fetchRates returns *)
(* has totalCost = baseRate + the sum of the amounts of additionalFees,    *)
(* rounded to cents, whatever the carrier response holds.                  *)
(***************************************************************************)
C11_QuoteTotal ==
    (outcome # <<>> /\ outcome[1].ok) =>
        \A k \in DOMAIN outcome[1].value :
            outcome[1].value[k].totalCost
              = roundToTwoDecimals(outcome[1].value[k].baseRate
                                   + SumAmounts(outcome[1].value[k].additionalFees))

(***************************************************************************)
(* C18  Carrier physical limits are enforced before any network call: for  *)
(* an envelope above 0.5 kg or a tube above 9.1 kg no network request is   *)
(* ever issued, neither the token exchange nor the rate request, and       *)
(* fetchRates fails with the limit error.                                  *)
(***************************************************************************)
OverLimit(req) ==
    \/ req.packageType = "envelope" /\ weightKg(req.weight) > 50000000
    \/ req.packageType = "tube" /\ weightKg(req.weight) > 910000000

C18_LimitsBeforeNetwork ==
    OverLimit(fetchRequest) =>
        /\ network = <<>>
        /\ adapterPc = "settled" =>
              /\ ~outcome[1].ok
              /\ outcome[1].error \in {EnvelopeLimitError, TubeLimitError}

Parsed == adapterPc = "settled" /\ rawData # <<>> /\ parseRateResponse(rawData[1]).ok

WithoutAlerts(rateResponse) == [rateResponse EXCEPT !.alerts = <<>>]

C21_FatalAlerts ==
    Parsed =>
        IF \E i \in DOMAIN rawData[1].alerts : rawData[1].alerts[i].alertType = "ERROR"
        THEN /\ ~outcome[1].ok
             /\ ~isRecoverableError(outcome[1].error)
        ELSE outcome[1] = ratesOf(fetchRequest, WithoutAlerts(rawData[1]))

(***************************************************************************)
(* C22  fetchRates applies the speed filter itself: of the quotes the      *)
(* response normalises to it returns, in their order, those whose speed is *)
(* request.options.speed, and all of them only when that speed is 'all'.   *)
(***************************************************************************)
Adapted == Parsed /\ adaptFedExResponse(rawData[1]).ok

allRates == adaptFedExResponse(rawData[1]).value

C22_SpeedFilterInAdapter ==
    Adapted =>
        /\ outcome[1].ok
        /\ \E kept \in SUBSET DOMAIN allRates :
              /\ kept = {i \in DOMAIN allRates :
                            fetchRequest.speed = "all"
                            \/ allRates[i].speed = fetchRequest.speed}
              /\ Len(outcome[1].value) = Cardinality(kept)
              /\ \A n \in DOMAIN outcome[1].value :
                    \E i \in kept :
                       /\ Cardinality({j \in kept : j <= i}) = n
                       /\ outcome[1].value[n] = allRates[i]

\* a request for one speed, a response with a service of that speed and one of another
C22_Witness ==
    /\ Adapted
    /\ fetchRequest.speed = "overnight"
    /\ Len(outcome[1].value) = 1
    /\ Len(allRates) = 2

\* C22 as stated: every usable service of the response is returned, whatever
\* request.options.speed
C22_AllTiers == Adapted => outcome[1] = Return(allRates)

(***************************************************************************)
(* C25  Cancellation: once the caller has given the call up, the adapter   *)
(* starts no further network call for it.                                  *)
(***************************************************************************)
C25_CancelReachesNetwork == [][cancelled => Len(network') = Len(network)]_vars

(***************************************************************************)
(* C23  Registry stability: every call of getCarrierAdapter for a carrier  *)
(* id the registry names returns the one adapter object built for it when  *)
(* the module was loaded; no adapter object is built later; so the token a *)
(* caller stored is the token every reference to that carrier's adapter    *)
(* holds, and what a later resolve of the carrier finds.                   *)
(***************************************************************************)
Returned == {k \in DOMAIN resolved : resolved[k].result.ok}

C28_KeyedByRequest ==
    (ratesPromise.pc = "settled" /\ ratesPromise.cached)
        => loaded.result[1].request = ratesPromise.request

(***************************************************************************)
(* C24  Per-carrier state machine: a task is Pending (its first attempt is *)
(* awaited), Retrying (an attempt of the retry loop is awaited or its      *)
(* backoff runs), Succeeded or Failed; a task that has Succeeded or Failed *)
(* never changes again, so its adapter is not invoked again; in the result *)
(* a Succeeded task stands with its quotes and no CarrierError, a Failed   *)
(* task with exactly one CarrierError and no quote.                        *)
(***************************************************************************)
\* the place of task i among the rejected tasks
FailedRank(i) == Cardinality({k \in 1..i : Rejected(k)})

RECURSIVE QuotesOfFirst(_)
QuotesOfFirst(n) ==
    IF n = 0 THEN <<>>
    ELSE QuotesOfFirst(n - 1) \o (IF Fulfilled(n) THEN task[n].value ELSE <<>>)

C24_TaskStateMachine ==
    /\ [](\A i \in DOMAIN task :
             /\ task[i].pc \in {"attempt", "retry", "backoff", "fulfilled", "rejected"}
             /\ task[i].pc = "attempt" => task[i].invocations = 1 /\ task[i].failures = <<>>
             /\ task[i].pc \in {"retry", "backoff"} =>
                   task[i].attempt \in 0..(MaxRetries - 1) /\ task[i].failures # <<>>)
    /\ [](phase = "returned" =>
             /\ Len(response[1].errors) = Cardinality({i \in DOMAIN task : Rejected(i)})
             /\ Len(response[1].rates) = Len(QuotesOfFirst(Len(task)))
             /\ \A i \in DOMAIN task :
                   /\ Fulfilled(i) => KeepsQuotesOf(i)
                   /\ Rejected(i) =>
                         /\ task[i].value = <<>>
                         /\ FailedRank(i) \in DOMAIN response[1].errors
                         /\ response[1].errors[FailedRank(i)]
                              = CarrierError(Carriers[i], task[i].error))
    /\ [][\A i \in DOMAIN task : Settled(task[i]) => task'[i] = task[i]]_vars

(***************************************************************************)
(* C30  Outcome conservation in the merge: for a target list of k entries  *)
(* the CarrierErrors and the succeeded tasks together number k; the rates  *)
(* are a permutation of the concatenation of the succeeded tasks' quotes;  *)
(* the errors stand in the order of the target list.                       *)
(***************************************************************************)
C30_OutcomeConservation ==
    phase = "returned" =>
        /\ response[1].status = "fulfilled"
        /\ Len(response[1].errors) + Cardinality({i \in DOMAIN task : Fulfilled(i)})
             = Len(Carriers)
        /\ BagOfSeq(response[1].rates) = BagOfSeq(QuotesOfFirst(Len(task)))
        /\ \A m, n \in DOMAIN response[1].errors :
              m < n =>
                \E i, j \in DOMAIN task :
                   /\ i < j
                   /\ Rejected(i) /\ response[1].errors[m] = CarrierError(Carriers[i], task[i].error)
                   /\ Rejected(j) /\ response[1].errors[n] = CarrierError(Carriers[j], task[j].error)

(***************************************************************************)
(* C26  Fee composition never mutates what it wraps: after a decorator is  *)
(* wrapped around a component, or applyFees is called on it, the component *)
(* is, beneath the decorators added, what it was before, and its getCost() *)
(* and getFees() return what they returned before.                         *)
(***************************************************************************)
\* the part of component c beneath the decorators added to a stack of n
Beneath(c, n) == [c EXCEPT !.stack = SubSeq(@, 1, n)]

C26_WrappedUnchanged ==
    [][component' # component =>
         /\ Len(component'.stack) > Len(component.stack)
         /\ Beneath(component', Len(component.stack)) = component
         /\ getCost(Beneath(component', Len(component.stack))) = getCost(component)
         /\ getFees(Beneath(component', Len(component.stack))) = getFees(component)
         /\ lastOp'.op = "wrap" => wrappedComponent(component') = component
         /\ wrapped' = component]_vars

\* applyFees has put three decorators around a component that had one
C26_Witness ==
    /\ lastOp.op = "applyFees"
    /\ Len(wrapped.stack) = 1
    /\ Len(component.stack) = 4
    /\ Beneath(component, 1) = wrapped

(***************************************************************************)
(* C29  A failed token refresh leaves the adapter reusable: every caller   *)
(* that awaited a token exchange that failed receives the failure; the     *)
(* failure of an exchange leaves the token cache as it was; the in-flight  *)
(* marker stands only while the caller that started its exchange has not   *)
(* yet resumed; and a call of getAccessToken made after that caller has    *)
(* received the failure, with no valid token in the cache, starts a new    *)
(* token exchange.                                                         *)
(***************************************************************************)
C29_FailedRefresh ==
    /\ [](\A c \in Callers :
             (/\ caller[c].pc = "done"
              /\ caller[c].exchange # 0
              /\ exchanges[caller[c].exchange].state = "rejected")
                => caller[c].result = [status |-> "error", token |-> 0])
    /\ [](tokenPromise # 0 =>
             \E c \in Callers : caller[c].pc = "awaitOwn" /\ caller[c].exchange = tokenPromise)
    /\ [][\A n \in DOMAIN exchanges :
             (exchanges[n].state = "pending" /\ exchanges'[n].state = "rejected")
                => tokenCache' = tokenCache]_vars
    /\ [][\A c \in Callers :
             (/\ caller[c].pc = "idle" /\ caller'[c].pc # "idle"
              /\ ~(tokenCache # <<>> /\ tokenCache[1].expiresAt > now + 300000)
              /\ exchanges # <<>>
              /\ exchanges[Len(exchanges)].state = "rejected"
              /\ \A o \in Callers : caller[o].pc # "awaitOwn")
                => /\ Len(exchanges') = Len(exchanges) + 1
                   /\ exchanges'[Len(exchanges')].state = "pending"
                   /\ tokenPromise' = Len(exchanges')
                   /\ caller'[c].pc = "awaitOwn"
                   /\ caller'[c].exchange = Len(exchanges')]_vars

\* the first exchange failed and its owner and a joiner hold the failure; a
\* later call has started a second exchange, which is in flight
C29_Witness ==
    /\ Len(exchanges) = 2
    /\ exchanges[1].state = "rejected"
    /\ exchanges[2].state = "pending"
    /\ tokenPromise = 2
    /\ \E o, j, n \in Callers :
          /\ o # j
          /\ caller[o].pc = "done" /\ caller[o].exchange = 1
          /\ caller[j].pc = "done" /\ caller[j].exchange = 1
          /\ caller[o].result.status = "error" /\ caller[j].result.status = "error"
          /\ caller[n].pc = "awaitOwn" /\ caller[n].exchange = 2

====
